---- MODULE Spec2Model ----
(***************************************************************************)
(* Token lifecycle of the authentication subsystem: TokenService           *)
(* (Token.service.ts), AuthService (Auth.service.ts) and the AuthToken     *)
(* entity.  Time is counted in seconds, the resolution of a JWT's iat and  *)
(* exp claims.  A token string is modelled by the payload it signs: the    *)
(* signature is a function of the payload and the fixed secret, so two     *)
(* tokens are the same string exactly when their payloads are equal.       *)
(***************************************************************************)
EXTENDS Integers, Sequences, FiniteSets, TLC

(* ------------------------------ bounds -------------------------------- *)
MaxRecords == 2
MaxAdvances == 1
MaxDeactivated == 1
StartTime == 1700000000
MaxWaits == 3
MaxRequests == 5
MaxFaults == 5
MaxSkip == 3

(* ------------------------- program constants -------------------------- *)
DaySeconds == 24 * 60 * 60
AccessTTL == 45 * 60
RefreshTTL == 7 * DaySeconds
RememberMeTTL == 14 * DaySeconds
RememberMeDays == 14
MaxTokenAgeDays == 30
ALLOWED_IP_CHANGE == FALSE
ALLOWED_USER_AGENT_CHANGE == FALSE

TYPE_ACCESS == "access"
TYPE_REFRESH == "refresh"
TYPE_REMEMBER_ME == "remember_me"

MsgRequired == "Token is required."
MsgStructure == "Invalid token structure."
MsgTypeAccess == "Invalid token type. Expected: access"
MsgTypeRefresh == "Invalid token type. Expected: refresh"
MsgTypeRemember == "Invalid token type. Expected: remember_me"
MsgExpired == "Token has expired."
MsgFormat == "Invalid token format."
MsgMaxAge == "Token has exceeded maximum age of 30 days."
MsgNoIat == "Token issue time not found."
MsgUserNotFound == "User not found."
MsgOwnership == "Token ownership validation failed."
MsgInactive == "User account is inactive or unverified."
MsgRevoked == "Token has been revoked."
MsgIp == "Token IP address mismatch."
MsgAgent == "Token user agent mismatch."
MsgValid == "Token valid."
MsgRefreshRevoked == "Refresh token is invalid or has been revoked."
MsgRefreshNoUser == "User not found for refresh token."
MsgAccountInvalid == "User account is invalid or inactive."
MsgRememberRevoked == "Remember Me token is invalid or has been revoked."
MsgRememberExpired == "Remember Me token has expired."
MsgRememberNoUser == "User not found for Remember Me token."
MsgNoTokens == "No valid tokens found to revoke."
MsgNotFoundOrRevoked == "Token not found or already revoked."
MsgRememberRevokedOk == "Remember Me token successfully revoked."
MsgAllRememberRevoked == "All Remember Me tokens successfully revoked."
MsgInvalidCredentials == "Invalid credentials."
MsgLoginInactive == "Account is inactive or unverified."
MsgOk == "ok"

(* ------------------------------ inputs -------------------------------- *)
Users == {"u1", "u2"}
Devices == {<<"ip1", "ua1">>, <<"ip2", "ua2">>}
\* the login requests tried: user, ip, user agent, remember_me
LoginRequests ==
    {<<"u1", "ip1", "ua1", FALSE>>, <<"u1", "ip1", "ua1", TRUE>>,
     <<"u1", "ip2", "ua2", FALSE>>, <<"u2", "ip1", "ua1", TRUE>>}
\* what validateAccessToken is given besides the token: email, ip, user agent,
\* each of them optional
AccessArgs ==
    {<<"", "", "">>, <<"", "ip1", "ua1">>, <<"u2@dcu", "ip1", "ua1">>,
     <<"", "ip2", "ua1">>, <<"", "", "ua1">>}
EmailOf(u) == IF u = "u1" THEN "u1@dcu" ELSE "u2@dcu"
(* Date.setDate works on the local calendar: when the clocks go forward    *)
(* inside the 14 calendar days, these are one hour less than 14 * 24       *)
(* hours.  SpringForward is the instant of that change in the server's     *)
(* time zone.                                                              *)
SpringForward == StartTime + DaySeconds
Advances == {AccessTTL, RememberMeTTL - AccessTTL}

VARIABLES now, ticks, users, tokens, last, calls,
          backend, config, records, blacklist, out, incs, twin, mem, retry, auth, chks, passed

\* the rate limiter: its storage backend and configuration, the stored
\* records and blacklist, the answer to the last request, and the
\* incrementRecord calls in flight
\* chks: the checkRateLimit calls in flight; passed: the requests that went
\* on to their handler
burstVars == <<chks, passed>>

\* retry: the last call of the Redis-backed store on a failing connection;
\* auth: the last request AuthMiddleware.authenticate handled
auxVars == <<retry, auth, burstVars>>

\* twin: a file-backed store that is given the calls the Redis-backed one is
\* given; mem: the Map and Set each route's file-backed adapter keeps in memory
moreVars == <<twin, mem, auxVars>>

rateVars == <<backend, config, records, blacklist, out, incs, moreVars>>

\* the token service: users, token records, the last call, rotations in flight
authVars == <<users, tokens, last, calls>>

vars == <<now, ticks, users, tokens, last, calls, rateVars>>

(* ------------------------------ tokens -------------------------------- *)
\* jwt.sign(payload, secret, {expiresIn}): iat is the clock second, exp = iat + ttl
Sign(id, type, ttl, t) ==
    [id |-> id, type |-> type, iat |-> t, exp |-> t + ttl, sig |-> "good"]

\* the empty string, null and undefined: no token
NoToken == [id |-> "", type |-> "", iat |-> 0, exp |-> 0, sig |-> "none"]
\* a string that is no JWT of this secret
GarbageToken == [id |-> "", type |-> "", iat |-> 0, exp |-> 0, sig |-> "bad"]
\* tokens signed with the secret that the service did not issue
NoIdToken ==
    [id |-> "", type |-> TYPE_ACCESS, iat |-> StartTime,
     exp |-> StartTime + 60 * DaySeconds, sig |-> "good"]
OldToken ==
    [id |-> "u1", type |-> TYPE_ACCESS, iat |-> StartTime - 31 * DaySeconds,
     exp |-> StartTime + 60 * DaySeconds, sig |-> "good"]
GhostToken ==
    [id |-> "ghost", type |-> TYPE_ACCESS, iat |-> StartTime,
     exp |-> StartTime + 60 * DaySeconds, sig |-> "good"]
ForgedTokens == {NoToken, GarbageToken, NoIdToken, OldToken, GhostToken}

\* the expiry test off by one: a token still passes in the second of its exp
JwtExpiredLate(token, t) == t > token.exp

\* jsonwebtoken's verify: signature first, then clockTimestamp >= exp
JwtExpired(token, t) == t >= token.exp

JwtVerify(token, t) ==
    IF token.sig # "good" THEN "format"
    ELSE IF JwtExpired(token, t) THEN "expired"
    ELSE "ok"

TypeMessage(expectedType) ==
    IF expectedType = TYPE_ACCESS THEN MsgTypeAccess
    ELSE IF expectedType = TYPE_REFRESH THEN MsgTypeRefresh
    ELSE MsgTypeRemember

\* validateTokenType without its comparison of payload.type
ValidateTokenTypeUntyped(token, expectedType, t) ==
    LET v == JwtVerify(token, t) IN
    IF v = "expired" THEN MsgExpired
    ELSE IF v = "format" THEN MsgFormat
    ELSE IF token.id = "" THEN MsgStructure
    ELSE MsgOk

\* TokenService.validateTokenType; expectedType "" is the omitted argument
ValidateTokenType(token, expectedType, t) ==
    LET v == JwtVerify(token, t) IN
    IF v = "expired" THEN MsgExpired
    ELSE IF v = "format" THEN MsgFormat
    ELSE IF token.id = "" THEN MsgStructure
    ELSE IF expectedType # "" /\ token.type # expectedType
         THEN TypeMessage(expectedType)
    ELSE MsgOk

\* TokenService.validateTokenAge
ValidateTokenAge(token, t) ==
    IF token.iat = 0 THEN MsgNoIat
    ELSE IF t - token.iat > MaxTokenAgeDays * DaySeconds THEN MsgMaxAge
    ELSE MsgOk

GenerateAccessToken(userId, t) == Sign(userId, TYPE_ACCESS, AccessTTL, t)
GenerateRefreshToken(userId, t) == Sign(userId, TYPE_REFRESH, RefreshTTL, t)
GenerateRememberMeToken(userId, t) == Sign(userId, TYPE_REMEMBER_ME, RememberMeTTL, t)

\* TokenService.calculateRememberMeExpiration
CalculateRememberMeExpiration(t) ==
    LET days == RememberMeDays * DaySeconds IN
    IF t < SpringForward /\ SpringForward <= t + days
    THEN t + days - 3600
    ELSE t + days

(* ------------------------------- users -------------------------------- *)
NoUser == [id |-> "", email |-> "", is_active |-> FALSE, is_email_verified |-> FALSE]

\* UserService.findUserById: the row, or not found
FindUserById(id, usrs) == IF id \in DOMAIN usrs THEN usrs[id] ELSE NoUser

(* ---------------------------- token store ----------------------------- *)
\* TokenService.createTokenRecord; a null token_version, remember_me_expires_at
\* or last_used_at is 0.  parent is history: the id of the record this one was
\* rotated from (0 for a login).
CreateTokenRecord(userId, ipAddress, userAgent, isRememberMe, tokenVersion, t) ==
    [user_id |-> userId,
     access_token |-> GenerateAccessToken(userId, t),
     refresh_token |-> GenerateRefreshToken(userId, t),
     ip_address |-> ipAddress,
     user_agent |-> userAgent,
     remember_me_token |->
         IF isRememberMe THEN GenerateRememberMeToken(userId, t) ELSE NoToken,
     is_remember_me_token |-> isRememberMe,
     remember_me_expires_at |->
         IF isRememberMe THEN CalculateRememberMeExpiration(t) ELSE 0,
     token_version |-> IF isRememberMe THEN tokenVersion ELSE 0,
     revoked |-> FALSE,
     last_used_at |-> 0,
     created_at |-> t,
     parent |-> 0]

\* revokeToken flipping the flag instead of setting it
RevokeTokenToggle(rec, t) == [rec EXCEPT !.revoked = ~rec.revoked, !.last_used_at = t]

\* AuthToken.revokeToken, which calls updateLastUsed
RevokeToken(rec, t) == [rec EXCEPT !.revoked = TRUE, !.last_used_at = t]

\* TokenService.revokeTokens: every record of ids revoked in one transaction
RevokeTokens(store, ids, t) ==
    [i \in DOMAIN store |-> IF i \in ids THEN RevokeToken(store[i], t) ELSE store[i]]

\* the where clauses of the repository lookups
AccessMatches(store, token) ==
    {i \in DOMAIN store : /\ store[i].user_id = token.id
                          /\ store[i].access_token = token
                          /\ ~store[i].revoked}

RefreshMatches(store, token) ==
    {i \in DOMAIN store : /\ store[i].user_id = token.id
                          /\ store[i].refresh_token = token
                          /\ ~store[i].revoked}

RememberMatches(store, token) ==
    {i \in DOMAIN store : /\ store[i].user_id = token.id
                          /\ store[i].remember_me_token = token
                          /\ store[i].is_remember_me_token
                          /\ ~store[i].revoked}

\* revokeRememberMeToken looks the token up without the user id
RememberMatchesAnyUser(store, token) ==
    {i \in DOMAIN store : /\ store[i].remember_me_token = token
                          /\ store[i].is_remember_me_token
                          /\ ~store[i].revoked}

AllRememberOf(store, userId) ==
    {i \in DOMAIN store : /\ store[i].user_id = userId
                          /\ store[i].is_remember_me_token
                          /\ ~store[i].revoked}

\* the lookup of revokeUserTokens without its user_id conditions
UserTokenMatchesAnyUser(store, userId, access, refresh, remember) ==
    {i \in DOMAIN store :
        \/ store[i].access_token = access
        \/ refresh # NoToken /\ store[i].refresh_token = refresh
        \/ remember # NoToken /\ store[i].remember_me_token = remember}

\* revokeUserTokens' find: an OR of up to three conditions, none on revoked
UserTokenMatches(store, userId, access, refresh, remember) ==
    {i \in DOMAIN store :
        /\ store[i].user_id = userId
        /\ \/ store[i].access_token = access
           \/ refresh # NoToken /\ store[i].refresh_token = refresh
           \/ remember # NoToken /\ store[i].remember_me_token = remember}

\* findOne without an ORDER BY returns any one matching row, or null (0)
FindOne(matches) == IF matches = {} THEN {0} ELSE matches

(* ----------------------------- validation ----------------------------- *)
Result(ok, message, status, reads) ==
    [ok |-> ok, message |-> message, token_status |-> status, reads |-> reads]

\* validateAccessToken with the user agent compared before the ip
ValidateAccessTokenAgentFirst(token, email, ip, ua, t, usrs, store, rec) ==
    LET typeMsg == ValidateTokenType(token, TYPE_ACCESS, t)
        ageMsg == ValidateTokenAge(token, t)
        user == FindUserById(token.id, usrs)
    IN
    IF token = NoToken THEN Result(FALSE, MsgRequired, "", FALSE)
    ELSE IF typeMsg # MsgOk THEN Result(FALSE, typeMsg, "", FALSE)
    ELSE IF ageMsg # MsgOk THEN Result(FALSE, ageMsg, "expired", FALSE)
    ELSE IF user = NoUser THEN Result(FALSE, MsgUserNotFound, "valid", TRUE)
    ELSE IF email # "" /\ user.email # email
         THEN Result(FALSE, MsgOwnership, "valid", TRUE)
    ELSE IF ~user.is_active \/ ~user.is_email_verified
         THEN Result(FALSE, MsgInactive, "valid", TRUE)
    ELSE IF rec = 0 THEN Result(FALSE, MsgRevoked, "revoked", TRUE)
    ELSE IF ua # "" /\ ~ALLOWED_USER_AGENT_CHANGE /\ store[rec].user_agent # ua
         THEN Result(FALSE, MsgAgent, "invalid", TRUE)
    ELSE IF ip # "" /\ ~ALLOWED_IP_CHANGE /\ store[rec].ip_address # ip
         THEN Result(FALSE, MsgIp, "invalid", TRUE)
    ELSE Result(TRUE, MsgValid, "valid", TRUE)

\* TokenService.validateAccessToken; rec is what findOne returned
ValidateAccessToken(token, email, ip, ua, t, usrs, store, rec) ==
    LET typeMsg == ValidateTokenType(token, TYPE_ACCESS, t)
        ageMsg == ValidateTokenAge(token, t)
        user == FindUserById(token.id, usrs)
    IN
    IF token = NoToken THEN Result(FALSE, MsgRequired, "", FALSE)
    ELSE IF typeMsg # MsgOk THEN Result(FALSE, typeMsg, "", FALSE)
    ELSE IF ageMsg # MsgOk THEN Result(FALSE, ageMsg, "expired", FALSE)
    ELSE IF user = NoUser THEN Result(FALSE, MsgUserNotFound, "valid", TRUE)
    ELSE IF email # "" /\ user.email # email
         THEN Result(FALSE, MsgOwnership, "valid", TRUE)
    ELSE IF ~user.is_active \/ ~user.is_email_verified
         THEN Result(FALSE, MsgInactive, "valid", TRUE)
    ELSE IF rec = 0 THEN Result(FALSE, MsgRevoked, "revoked", TRUE)
    ELSE IF ip # "" /\ ~ALLOWED_IP_CHANGE /\ store[rec].ip_address # ip
         THEN Result(FALSE, MsgIp, "invalid", TRUE)
    ELSE IF ua # "" /\ ~ALLOWED_USER_AGENT_CHANGE /\ store[rec].user_agent # ua
         THEN Result(FALSE, MsgAgent, "invalid", TRUE)
    ELSE Result(TRUE, MsgValid, "valid", TRUE)

\* TokenService.validateRefreshToken
ValidateRefreshToken(token, t, usrs, store, rec) ==
    LET typeMsg == ValidateTokenType(token, TYPE_REFRESH, t)
        ageMsg == ValidateTokenAge(token, t)
        user == FindUserById(token.id, usrs)
    IN
    IF typeMsg # MsgOk THEN Result(FALSE, typeMsg, "", FALSE)
    ELSE IF ageMsg # MsgOk THEN Result(FALSE, ageMsg, "", FALSE)
    ELSE IF rec = 0 THEN Result(FALSE, MsgRefreshRevoked, "", TRUE)
    ELSE IF user = NoUser THEN Result(FALSE, MsgRefreshNoUser, "", TRUE)
    ELSE IF ~user.is_active \/ ~user.is_email_verified
         THEN Result(FALSE, MsgAccountInvalid, "", TRUE)
    ELSE Result(TRUE, MsgOk, "", TRUE)

\* the record's expiry taken from the token's signed exp instead
RememberMeExpiredBySignature(rec, t) == t > rec.remember_me_token.exp

\* new Date() > tokenRecord.remember_me_expires_at
RememberMeExpired(rec, t) == t > rec.remember_me_expires_at

\* TokenService.validateRememberMeToken
ValidateRememberMeToken(token, t, usrs, store, rec) ==
    LET typeMsg == ValidateTokenType(token, TYPE_REMEMBER_ME, t)
        user == FindUserById(token.id, usrs)
    IN
    IF typeMsg # MsgOk THEN Result(FALSE, typeMsg, "", FALSE)
    ELSE IF rec = 0 THEN Result(FALSE, MsgRememberRevoked, "", TRUE)
    ELSE IF RememberMeExpired(store[rec], t)
         THEN Result(FALSE, MsgRememberExpired, "", TRUE)
    ELSE IF user = NoUser THEN Result(FALSE, MsgRememberNoUser, "", TRUE)
    ELSE IF ~user.is_active \/ ~user.is_email_verified
         THEN Result(FALSE, MsgAccountInvalid, "", TRUE)
    ELSE Result(TRUE, MsgOk, "", TRUE)

(* --------------------------- rate limiting ---------------------------- *)
TOO_MANY_REQUESTS == 429
FORBIDDEN == 403
INTERNAL_SERVER_ERROR == 500
\* if (record.violations >= 3)
BlacklistThreshold == 3

ErrBlacklisted == "IP is blacklisted"
ErrRedis == "Redis connection failed"
\* fs.writeFile rejects in saveToFile / saveBlacklistToFile
ErrWrite == "write failed"

IPs == {"ip1"}
\* RedisRateLimitAdapter and the file-backed RateLimitAdapter
Backends == {"redis", "file"}

\* the configuration of the /auth/login route
LoginLimits ==
    [authenticatedLimit |-> 2, unauthenticatedLimit |-> 2,
     authWindowSeconds |-> 15, unauthWindowSeconds |-> 15]
\* the configuration of the find-user route
FindUserLimits ==
    [authenticatedLimit |-> 20, unauthenticatedLimit |-> 0,
     authWindowSeconds |-> 60, unauthWindowSeconds |-> 60]
Configs == {LoginLimits, FindUserLimits}

\* the seconds that pass between two requests: inside a window, past the
\* window of LoginLimits, past the window of FindUserLimits, a day
Waits == {5, 12, 58, DaySeconds}

\* IIPRecord, or null (present = FALSE).  expires is the instant the Redis key
\* expires (0 in the file backend); obj tells the objects of the file
\* backend's Map apart: the call that created the object (0: a call that ran
\* alone).
NoRecord ==
    [present |-> FALSE, requests |-> 0, lastReset |-> 0, isAuthenticated |-> FALSE,
     violations |-> 0, expires |-> 0, obj |-> 0]

Limit(cfg, isAuthenticated) ==
    IF isAuthenticated THEN cfg.authenticatedLimit ELSE cfg.unauthenticatedLimit

Window(cfg, isAuthenticated) ==
    IF isAuthenticated THEN cfg.authWindowSeconds ELSE cfg.unauthWindowSeconds

\* lastReset < new Date(Date.now() - timeWindow * 1000)
WindowElapsed(cfg, rec, t) == rec.lastReset < t - Window(cfg, rec.isAuthenticated)

\* Redis drops a key when its EX time is over
Expire(b, recs, t) ==
    IF b = "redis"
    THEN [ip \in DOMAIN recs |->
            IF recs[ip].present /\ t >= recs[ip].expires THEN NoRecord ELSE recs[ip]]
    ELSE recs

\* sIsMember(BLACKLIST_KEY, ip) / blacklist.has(ip)
IsBlacklisted(bl, ip) == ip \in bl

\* the assignments of resetRecord
ResetFields(rec, t) == [rec EXCEPT !.requests = 0, !.lastReset = t, !.violations = 0]

(* getRecord.  The file backend resets a record whose window has elapsed   *)
(* and returns it.  The Redis backend calls resetRecord, which calls       *)
(* getRecord before it writes anything, which finds the same stored record *)
(* and calls resetRecord again: the call goes round until the key has      *)
(* expired, at rec.expires, and then returns null.  at is the instant the  *)
(* call returns.                                                           *)
GetRecord(b, cfg, recs, bl, ip, t) ==
    LET rec == recs[ip] IN
    IF IsBlacklisted(bl, ip)
    THEN [err |-> ErrBlacklisted, rec |-> NoRecord, records |-> recs, at |-> t]
    ELSE IF ~rec.present
    THEN [err |-> "", rec |-> NoRecord, records |-> recs, at |-> t]
    ELSE IF WindowElapsed(cfg, rec, t)
    THEN IF b = "file"
         THEN [err |-> "", rec |-> ResetFields(rec, t),
               records |-> [recs EXCEPT ![ip] = ResetFields(rec, t)], at |-> t]
         ELSE [err |-> "", rec |-> NoRecord,
               records |-> Expire(b, recs, rec.expires), at |-> rec.expires]
    ELSE [err |-> "", rec |-> rec, records |-> recs, at |-> t]

\* the record incrementRecord starts from when getRecord returned null
NewRecord(isAuthenticated, t, who) ==
    [NoRecord EXCEPT !.present = TRUE, !.lastReset = t,
                     !.isAuthenticated = isAuthenticated, !.obj = who]

\* incrementRecord's update of the record it holds, and the key's new EX
Bump(b, cfg, rec, isAuthenticated, t) ==
    [rec EXCEPT !.requests = rec.requests + 1,
                !.isAuthenticated = isAuthenticated,
                !.violations = IF rec.requests + 1 > Limit(cfg, isAuthenticated)
                               THEN rec.violations + 1 ELSE rec.violations,
                !.expires = IF b = "redis" THEN t + cfg.authWindowSeconds ELSE 0]

\* the blacklist reached one violation late
ShouldBlacklistLate(cfg, rec) ==
    /\ rec.requests > Limit(cfg, rec.isAuthenticated)
    /\ rec.violations > BlacklistThreshold

\* the updated record is a violation that reaches the blacklist
ShouldBlacklist(cfg, rec) ==
    /\ rec.requests > Limit(cfg, rec.isAuthenticated)
    /\ rec.violations >= BlacklistThreshold

\* incrementRecord, run alone
IncrementRecord(b, cfg, recs, bl, ip, isAuthenticated, t) ==
    LET g == GetRecord(b, cfg, recs, bl, ip, t)
        base == IF g.rec.present THEN g.rec ELSE NewRecord(isAuthenticated, g.at, 0)
        upd == Bump(b, cfg, base, isAuthenticated, g.at)
    IN
    IF g.err # ""
    THEN [err |-> g.err, records |-> g.records, blacklist |-> bl, at |-> g.at]
    ELSE [err |-> "", records |-> [g.records EXCEPT ![ip] = upd],
          blacklist |-> IF ShouldBlacklist(cfg, upd) THEN bl \cup {ip} ELSE bl,
          at |-> g.at]

\* the limit test letting one request more through
ExceededStrict(rec, limit) == rec.requests > limit

\* record.requests >= limit
Exceeded(rec, limit) == rec.requests >= limit

\* a handler that runs whatever the preHandler hooks replied
HandlerAlwaysRuns(status) == TRUE

\* the preHandler hooks are followed by the route handler unless a reply was sent
HandlerRuns(status) == status = 0

\* the answer to a request: status 0 is no reply sent by the middleware,
\* remaining -1 no X-RateLimit-Remaining header; err is the error the store
\* threw, rec the record a getRecord call returned
NoReply ==
    [op |-> "none", ip |-> "", isAuthenticated |-> FALSE, fail |-> FALSE, err |-> "",
     status |-> 0, remaining |-> -1, retryAfter |-> 0, reset |-> 0, handler |-> FALSE,
     rec |-> NoRecord]

\* what the catch blocks of checkRateLimit send: the Redis variant tells the
\* blacklist from other errors; the file variant logs and sends nothing
OnStoreError(b, err) ==
    IF b = "file" THEN 0
    ELSE IF err = ErrBlacklisted THEN FORBIDDEN
    ELSE INTERNAL_SERVER_ERROR

\* an incrementRecord call between its getRecord and its write
NoIncrement == [pc |-> "idle", ip |-> "", isAuthenticated |-> FALSE, got |-> NoRecord]

\* an empty file-backed store and no call answered yet
NoTwin ==
    [records |-> [ip \in IPs |-> NoRecord], blacklist |-> {}, err |-> "", rec |-> NoRecord]

\* the configuration of the /auth/logout route
LogoutLimits ==
    [authenticatedLimit |-> 5, unauthenticatedLimit |-> 5,
     authWindowSeconds |-> 60, unauthWindowSeconds |-> 60]

Routes == {"login", "logout"}
RouteConfig(r) == IF r = "login" THEN LoginLimits ELSE LogoutLimits

\* the Redis commands of the store, and its public calls
Commands == {"sIsMember", "get", "set", "sAdd", "sRem"}
StoreCalls ==
    {"getRecord", "incrementRecord", "resetRecord", "addToBlacklist", "removeFromBlacklist"}

\* ClientClosedError: 'The client is closed'
ErrClosed == "The client is closed"
ErrOther == "READONLY You can't write against a read only replica"

\* no call made yet.  kind is the error the connection answers with, from the
\* command numbered from on and failing times; skip and faults count them down;
\* tries are the attempts of each command, retried the operations run again
NoRedisCall ==
    [call |-> "none", kind |-> "", third |-> FALSE, skip |-> 0, faults |-> 0, from |-> 0,
     failing |-> 0, tries |-> [c \in Commands |-> 0], retried |-> 0, err |-> ""]

\* a string of n characters c
Rep(c, n) == [i \in 1 .. n |-> c]

\* String.prototype.trim
RECURSIVE TrimStart(_)
TrimStart(s) == IF s # <<>> /\ Head(s) = " " THEN TrimStart(Tail(s)) ELSE s
RECURSIVE TrimEnd(_)
TrimEnd(s) ==
    IF s # <<>> /\ s[Len(s)] = " " THEN TrimEnd(SubSeq(s, 1, Len(s) - 1)) ELSE s
Trim(s) == TrimEnd(TrimStart(s))

\* token.includes('.')
IncludesDot(s) == \E i \in 1 .. Len(s) : s[i] = "."

\* what getSessionCookie returns: Err (request.cookies is missing), Ok(undefined)
\* or Ok(value)
NoCookies == [err |-> TRUE, defined |-> FALSE, value |-> <<>>]
NoSessionCookie == [err |-> FALSE, defined |-> FALSE, value |-> <<>>]
SessionCookie(v) == [err |-> FALSE, defined |-> TRUE, value |-> v]

CookieValues ==
    {<<>>,
     Rep(" ", 12),
     Rep("a", 9),
     Rep(" ", 2) \o Rep("a", 4) \o <<".">> \o Rep("a", 4) \o Rep(" ", 2),
     Rep("a", 12),
     <<".">> \o Rep("a", 9),
     Rep("a", 5) \o <<".">> \o Rep("a", 6),
     <<" ">> \o Rep("a", 5) \o <<".">> \o Rep("a", 6) \o <<" ">>}

SessionCookies == {NoCookies, NoSessionCookie} \cup {SessionCookie(v) : v \in CookieValues}

\* what validateAccessToken does: it returns Err, returns Ok with a user or
\* without one, or throws
NoValidatedUser == [present |-> FALSE, id |-> "", email |-> "", is_active |-> FALSE,
                    is_email_verified |-> FALSE]
ValidationUsers ==
    [present : {TRUE}, id : {"", "u1"}, email : {"", "u1@x"}, is_active : BOOLEAN,
     is_email_verified : BOOLEAN]
Validations ==
    {[kind |-> "err", user |-> NoValidatedUser], [kind |-> "throw", user |-> NoValidatedUser],
     [kind |-> "ok", user |-> NoValidatedUser]}
    \cup {[kind |-> "ok", user |-> u] : u \in ValidationUsers}

\* no request handled yet: status 0 and sent FALSE are no response, email is
\* the email cookie set on the reply ("" for none), validated whether
\* validateAccessToken was called, threw whether authenticate rejected
NoAuthentication ==
    [cookie |-> NoCookies, validation |-> [kind |-> "none", user |-> NoValidatedUser],
     status |-> 0, sent |-> FALSE, email |-> "", validated |-> FALSE, threw |-> FALSE]

(* ------------------------------- calls -------------------------------- *)
\* last is the most recent call of the service and what it returned: found are
\* the records its lookup returned, issued the id of the record it created,
\* wrote whether it saved anything.
NoCall ==
    [op |-> "none", token |-> NoToken, refresh |-> NoToken, remember |-> NoToken,
     user |-> "", email |-> "", ip |-> "", ua |-> "", found |-> {}, issued |-> 0,
     wrote |-> FALSE, res |-> Result(FALSE, "", "", FALSE)]

Found(res, rec) == IF res.reads /\ rec # 0 THEN {rec} ELSE {}

\* A call that saved nothing leaves the program in the state it was called in:
\* its answer is looked at in last and handed back (Return) before the run goes
\* on from that state.  The answer of a call that saved something stays in last
\* until the next call.
Ready == last.op = "none" \/ last.wrote

\* every token string held by the store, and the forged ones
StoreTokens(store) ==
    UNION {{store[i].access_token, store[i].refresh_token, store[i].remember_me_token} :
           i \in DOMAIN store}

Presentable(store) == StoreTokens(store) \cup ForgedTokens

RefreshArgs(store) == {NoToken} \cup {store[i].refresh_token : i \in DOMAIN store}
RememberArgs(store) == {NoToken} \cup {store[i].remember_me_token : i \in DOMAIN store}

\* the requests in flight when calls interleave at their awaits
Procs == {1, 2}

\* a refresh or loginWithRememberMe call between two of its awaits: rec is the
\* row its lookup returned, new the record it built
NoRotation ==
    [pc |-> "idle", op |-> "", token |-> NoToken, ip |-> "", ua |-> "", rec |-> 0,
     new |-> CreateTokenRecord("", "", "", FALSE, 0, 0)]

\* a checkRateLimit call that is not running
NoCheck == [pc |-> "idle", ip |-> "", isAuthenticated |-> FALSE]

InitMore ==
    /\ twin = NoTwin
    /\ mem = [r \in Routes |-> [records |-> [ip \in IPs |-> NoRecord], blacklist |-> {}]]
    /\ retry = NoRedisCall
    /\ auth = NoAuthentication
    /\ chks = [p \in Procs |-> NoCheck]
    /\ passed = 0

Init ==
    /\ now = StartTime
    /\ ticks = 0
    /\ users = [u \in Users |->
                  [id |-> u, email |-> EmailOf(u), is_active |-> TRUE,
                   is_email_verified |-> TRUE]]
    /\ tokens = <<>>
    /\ last = NoCall
    /\ calls = [p \in Procs |-> NoRotation]
    /\ backend = "redis"
    /\ config = LoginLimits
    /\ records = [ip \in IPs |-> NoRecord]
    /\ blacklist = {}
    /\ out = NoReply
    /\ incs = [p \in Procs |-> NoIncrement]
    /\ InitMore

Return ==
    /\ ~Ready
    /\ last' = NoCall
    /\ UNCHANGED <<now, ticks, users, tokens, calls, rateVars>>

\* the clock
Tick(d) ==
    /\ Ready
    /\ ticks < MaxAdvances
    /\ now' = now + d
    /\ ticks' = ticks + 1
    /\ last' = NoCall
    /\ UNCHANGED <<users, tokens, calls, rateVars>>

\* UserService.deactivateAccount
DeactivateAccount(u) ==
    /\ Ready
    /\ users[u].is_active
    /\ Cardinality({v \in Users : ~users[v].is_active}) < MaxDeactivated
    /\ users' = [users EXCEPT ![u].is_active = FALSE]
    /\ last' = NoCall
    /\ UNCHANGED <<now, ticks, tokens, calls, rateVars>>

\* AuthService.login; pwOk is the outcome of bcrypt.compare
Login(u, pwOk, dev, rememberMe) ==
    LET user == users[u]
        call == [NoCall EXCEPT !.op = "login", !.user = u, !.ip = dev[1], !.ua = dev[2]]
    IN
    /\ Ready
    /\ IF ~user.is_email_verified \/ ~user.is_active
       THEN /\ last' = [call EXCEPT !.res = Result(FALSE, MsgLoginInactive, "", FALSE)]
            /\ UNCHANGED tokens
       ELSE IF ~pwOk
       THEN /\ last' = [call EXCEPT !.res = Result(FALSE, MsgInvalidCredentials, "", FALSE)]
            /\ UNCHANGED tokens
       ELSE /\ Len(tokens) < MaxRecords
            /\ tokens' = Append(tokens,
                   CreateTokenRecord(user.id, dev[1], dev[2], rememberMe, 1, now))
            /\ last' = [call EXCEPT !.issued = Len(tokens) + 1, !.wrote = TRUE,
                                    !.res = Result(TRUE, MsgOk, "", FALSE)]
    /\ UNCHANGED <<now, ticks, users, calls, rateVars>>

\* the transaction of refresh and loginWithRememberMe: the new record saved and
\* the old one revoked, both or neither
Rotate(store, rec, new, t) ==
    Append(RevokeTokens(store, {rec}, t), [new EXCEPT !.parent = rec])

\* AuthService.refresh
Refresh(token, dev) ==
    \E rec \in FindOne(RefreshMatches(tokens, token)) :
        LET res == ValidateRefreshToken(token, now, users, tokens, rec)
            call == [NoCall EXCEPT !.op = "refresh", !.token = token, !.ip = dev[1],
                                   !.ua = dev[2], !.found = Found(res, rec), !.res = res]
        IN
        /\ Ready
        /\ IF ~res.ok
           THEN /\ last' = call
                /\ UNCHANGED tokens
           ELSE /\ Len(tokens) < MaxRecords
                /\ tokens' = Rotate(tokens, rec,
                       CreateTokenRecord(token.id, dev[1], dev[2], FALSE, 1, now), now)
                /\ last' = [call EXCEPT !.issued = Len(tokens) + 1, !.wrote = TRUE]
        /\ UNCHANGED <<now, ticks, users, calls, rateVars>>

\* (tokenRecord.token_version || 0) + 1
NextVersion(rec) == rec.token_version + 1

\* AuthService.loginWithRememberMe
LoginWithRememberMe(token, dev) ==
    \E rec \in FindOne(RememberMatches(tokens, token)) :
        LET res == ValidateRememberMeToken(token, now, users, tokens, rec)
            call == [NoCall EXCEPT !.op = "loginWithRememberMe", !.token = token,
                                   !.ip = dev[1], !.ua = dev[2],
                                   !.found = Found(res, rec), !.res = res]
        IN
        /\ Ready
        /\ IF ~res.ok
           THEN /\ last' = call
                /\ UNCHANGED tokens
           ELSE /\ Len(tokens) < MaxRecords
                /\ tokens' = Rotate(tokens, rec,
                       CreateTokenRecord(token.id, dev[1], dev[2], TRUE,
                                         NextVersion(tokens[rec]), now), now)
                /\ last' = [call EXCEPT !.issued = Len(tokens) + 1, !.wrote = TRUE]
        /\ UNCHANGED <<now, ticks, users, calls, rateVars>>

\* TokenService.revokeUserTokens (AuthService.logout)
RevokeUserTokens(access, refresh, remember) ==
    LET typeMsg == ValidateTokenType(access, "", now)
        ids == UserTokenMatches(tokens, access.id, access, refresh, remember)
        call == [NoCall EXCEPT !.op = "revokeUserTokens", !.token = access,
                               !.refresh = refresh, !.remember = remember]
    IN
    /\ Ready
    /\ IF typeMsg # MsgOk
       THEN /\ last' = [call EXCEPT !.res = Result(FALSE, typeMsg, "", FALSE)]
            /\ UNCHANGED tokens
       ELSE IF ids = {}
       THEN /\ last' = [call EXCEPT !.res = Result(FALSE, MsgNoTokens, "", TRUE)]
            /\ UNCHANGED tokens
       ELSE /\ tokens' = RevokeTokens(tokens, ids, now)
            /\ last' = [call EXCEPT !.found = ids, !.wrote = TRUE,
                                    !.res = Result(TRUE, MsgOk, "", TRUE)]
    /\ UNCHANGED <<now, ticks, users, calls, rateVars>>

\* TokenService.revokeRememberMeToken
RevokeRememberMeToken(token) ==
    \E rec \in FindOne(RememberMatchesAnyUser(tokens, token)) :
        LET call == [NoCall EXCEPT !.op = "revokeRememberMeToken", !.token = token] IN
        /\ Ready
        /\ IF rec = 0
           THEN /\ last' = [call EXCEPT !.res = Result(FALSE, MsgNotFoundOrRevoked, "", TRUE)]
                /\ UNCHANGED tokens
           ELSE /\ tokens' = RevokeTokens(tokens, {rec}, now)
                /\ last' = [call EXCEPT !.found = {rec}, !.wrote = TRUE,
                                        !.res = Result(TRUE, MsgRememberRevokedOk, "", TRUE)]
        /\ UNCHANGED <<now, ticks, users, calls, rateVars>>

\* TokenService.revokeAllRememberMeTokens
RevokeAllRememberMeTokens(u) ==
    LET ids == AllRememberOf(tokens, u) IN
    /\ Ready
    /\ tokens' = RevokeTokens(tokens, ids, now)
    /\ last' = [NoCall EXCEPT !.op = "revokeAllRememberMeTokens", !.user = u,
                              !.found = ids, !.wrote = (ids # {}),
                              !.res = Result(TRUE, MsgAllRememberRevoked, "", TRUE)]
    /\ UNCHANGED <<now, ticks, users, calls, rateVars>>

\* a call of TokenService.validateAccessToken
ValidateAccess(token, email, ip, ua) ==
    \E rec \in FindOne(AccessMatches(tokens, token)) :
        LET res == ValidateAccessToken(token, email, ip, ua, now, users, tokens, rec) IN
        /\ Ready
        /\ last' = [NoCall EXCEPT !.op = "validateAccessToken", !.token = token,
                                  !.email = email, !.ip = ip, !.ua = ua,
                                  !.found = Found(res, rec), !.res = res]
        /\ UNCHANGED <<now, ticks, users, tokens, calls, rateVars>>

\* a call of TokenService.validateRefreshToken
ValidateRefresh(token) ==
    \E rec \in FindOne(RefreshMatches(tokens, token)) :
        LET res == ValidateRefreshToken(token, now, users, tokens, rec) IN
        /\ Ready
        /\ last' = [NoCall EXCEPT !.op = "validateRefreshToken", !.token = token,
                                  !.found = Found(res, rec), !.res = res]
        /\ UNCHANGED <<now, ticks, users, tokens, calls, rateVars>>

\* a call of TokenService.validateRememberMeToken
ValidateRememberMe(token) ==
    \E rec \in FindOne(RememberMatches(tokens, token)) :
        LET res == ValidateRememberMeToken(token, now, users, tokens, rec) IN
        /\ Ready
        /\ last' = [NoCall EXCEPT !.op = "validateRememberMeToken", !.token = token,
                                  !.found = Found(res, rec), !.res = res]
        /\ UNCHANGED <<now, ticks, users, tokens, calls, rateVars>>

Next ==
    \/ Return
    \/ \E d \in Advances : Tick(d)
    \/ \E u \in Users : DeactivateAccount(u)
    \/ \E rq \in LoginRequests, pwOk \in BOOLEAN :
          Login(rq[1], pwOk, <<rq[2], rq[3]>>, rq[4])
    \/ \E t \in Presentable(tokens), dev \in Devices : Refresh(t, dev)
    \/ \E t \in Presentable(tokens), dev \in Devices : LoginWithRememberMe(t, dev)
    \/ \E a \in StoreTokens(tokens) \cup {GarbageToken},
          r \in RefreshArgs(tokens), m \in RememberArgs(tokens) :
          RevokeUserTokens(a, r, m)
    \/ \E t \in Presentable(tokens) : RevokeRememberMeToken(t)
    \/ \E u \in Users : RevokeAllRememberMeTokens(u)
    \/ \E t \in Presentable(tokens), a \in AccessArgs :
          ValidateAccess(t, a[1], a[2], a[3])
    \/ \E t \in Presentable(tokens) : ValidateRefresh(t)
    \/ \E t \in Presentable(tokens) : ValidateRememberMe(t)

Spec == Init /\ [][Next]_vars

(* ----------------------- calls that interleave ------------------------ *)
\* refresh up to its first await: validateRefreshToken's type and age checks
\* and its findOne
RefreshLookup(p, token, dev) ==
    \E rec \in RefreshMatches(tokens, token) :
        /\ calls[p].pc = "idle"
        /\ ValidateTokenType(token, TYPE_REFRESH, now) = MsgOk
        /\ ValidateTokenAge(token, now) = MsgOk
        /\ calls' = [calls EXCEPT ![p] =
                        [NoRotation EXCEPT !.pc = "found", !.op = "refresh",
                                           !.token = token, !.ip = dev[1],
                                           !.ua = dev[2], !.rec = rec]]
        /\ UNCHANGED <<now, ticks, users, tokens, last, rateVars>>

\* loginWithRememberMe up to its first await: validateRememberMeToken's type
\* check, its findOne and the test of remember_me_expires_at
RememberLookup(p, token, dev) ==
    \E rec \in RememberMatches(tokens, token) :
        /\ calls[p].pc = "idle"
        /\ ValidateTokenType(token, TYPE_REMEMBER_ME, now) = MsgOk
        /\ ~RememberMeExpired(tokens[rec], now)
        /\ calls' = [calls EXCEPT ![p] =
                        [NoRotation EXCEPT !.pc = "found", !.op = "loginWithRememberMe",
                                           !.token = token, !.ip = dev[1],
                                           !.ua = dev[2], !.rec = rec]]
        /\ UNCHANGED <<now, ticks, users, tokens, last, rateVars>>

\* from findUserById to createTokenRecord; the call ends here with an Err when
\* the user is missing, inactive or unverified.  tokenRecord is the row as the
\* lookup read it.
RotateCreate(p) ==
    LET c == calls[p]
        user == FindUserById(c.token.id, users)
        isRemember == c.op = "loginWithRememberMe"
    IN
    /\ c.pc = "found"
    /\ IF user = NoUser \/ ~user.is_active \/ ~user.is_email_verified
       THEN calls' = [calls EXCEPT ![p] = NoRotation]
       ELSE calls' = [calls EXCEPT ![p].pc = "created",
                                   ![p].new =
                                       CreateTokenRecord(user.id, c.ip, c.ua, isRemember,
                                           IF isRemember THEN NextVersion(tokens[c.rec])
                                           ELSE 1, now)]
    /\ UNCHANGED <<now, ticks, users, tokens, last, rateVars>>

\* the transaction commits: the new record saved, the old one revoked
RotateCommit(p) ==
    /\ calls[p].pc = "created"
    /\ Len(tokens) < MaxRecords + 1
    /\ tokens' = Rotate(tokens, calls[p].rec, calls[p].new, now)
    /\ calls' = [calls EXCEPT ![p] = NoRotation]
    /\ UNCHANGED <<now, ticks, users, last, rateVars>>

\* the transaction fails between its writes and is rolled back
RotateAbort(p) ==
    /\ calls[p].pc = "created"
    /\ calls' = [calls EXCEPT ![p] = NoRotation]
    /\ UNCHANGED <<now, ticks, users, tokens, last, rateVars>>

\* the requests made while calls interleave: remember-me logins, and
\* rotations sent from the device that logged in
ConcLogins == {rq \in LoginRequests : rq[4]}

ConcDevices == {<<"ip1", "ua1">>}

NextConc ==
    \/ Return
    \/ \E d \in Advances : Tick(d)
    \/ \E u \in Users : DeactivateAccount(u)
    \/ \E rq \in ConcLogins : Login(rq[1], TRUE, <<rq[2], rq[3]>>, rq[4])
    \/ \E p \in Procs, t \in StoreTokens(tokens), dev \in ConcDevices : RefreshLookup(p, t, dev)
    \/ \E p \in Procs, t \in StoreTokens(tokens), dev \in ConcDevices : RememberLookup(p, t, dev)
    \/ \E p \in Procs : RotateCreate(p)
    \/ \E p \in Procs : RotateCommit(p)
    \/ \E p \in Procs : RotateAbort(p)

SpecConc == Init /\ [][NextConc]_vars

(* --------------------------- rate limiter ----------------------------- *)
\* a reply of checkRateLimit, or none (status 0), with the store as the
\* request leaves it
Answer(b, ip, isAuthenticated, fail, err, status, remaining, retryAfter, reset, recs, bl, t) ==
    [reply |-> [op |-> "checkRateLimit", ip |-> ip, isAuthenticated |-> isAuthenticated,
                fail |-> fail, err |-> err, status |-> status, remaining |-> remaining,
                retryAfter |-> retryAfter, reset |-> reset,
                handler |-> HandlerRuns(status), rec |-> NoRecord],
     records |-> recs, blacklist |-> bl, at |-> t]

(* RateLimitMiddleware.checkRateLimit, both variants.  fail is a failure of *)
(* the storage during the request: the Redis connection cannot be opened,   *)
(* so that the first store operation throws; in the file backend            *)
(* fs.writeFile rejects, so that the first save throws after the Map was    *)
(* updated.                                                                 *)
CheckRateLimitResult(b, cfg, recs, bl, ip, isAuthenticated, fail, t) ==
    LET limit == Limit(cfg, isAuthenticated)
        windowSeconds == Window(cfg, isAuthenticated)
        g == GetRecord(b, cfg, recs, bl, ip, t)
        inc == IncrementRecord(b, cfg, g.records, bl, ip, isAuthenticated, g.at)
        g2 == GetRecord(b, cfg, inc.records, inc.blacklist, ip, inc.at)
        Thrown(err, rs, black, at) ==
            Answer(b, ip, isAuthenticated, fail, err, OnStoreError(b, err), -1, 0, 0,
                   rs, black, at)
    IN
    IF fail /\ b = "redis" THEN Thrown(ErrRedis, recs, bl, t)
    ELSE IF g.err # "" THEN Thrown(g.err, g.records, bl, g.at)
    ELSE IF fail /\ g.records # recs THEN Thrown(ErrWrite, g.records, bl, g.at)
    ELSE IF g.rec.present /\ Exceeded(g.rec, limit)
    THEN Answer(b, ip, isAuthenticated, fail, "", TOO_MANY_REQUESTS, 0,
                (g.rec.lastReset + windowSeconds) - g.at,
                g.rec.lastReset + windowSeconds, g.records, bl, g.at)
    ELSE IF inc.err # "" THEN Thrown(inc.err, inc.records, inc.blacklist, inc.at)
    ELSE IF fail THEN Thrown(ErrWrite, inc.records, inc.blacklist, inc.at)
    ELSE IF g2.err # "" THEN Thrown(g2.err, g2.records, inc.blacklist, g2.at)
    ELSE Answer(b, ip, isAuthenticated, fail, "", 0,
                IF g2.rec.present THEN limit - g2.rec.requests ELSE -1, 0,
                IF g2.rec.present THEN g2.rec.lastReset + windowSeconds ELSE 0,
                g2.records, inc.blacklist, g2.at)

InitRate ==
    /\ now = StartTime
    /\ ticks = 0
    /\ users = [u \in Users |->
                  [id |-> u, email |-> EmailOf(u), is_active |-> TRUE,
                   is_email_verified |-> TRUE]]
    /\ tokens = <<>>
    /\ last = NoCall
    /\ calls = [p \in Procs |-> NoRotation]
    /\ backend \in Backends
    /\ config \in Configs
    /\ records = [ip \in IPs |-> NoRecord]
    /\ blacklist = {}
    /\ out = NoReply
    /\ incs = [p \in Procs |-> NoIncrement]
    /\ InitMore

\* time passes between two requests
Wait(d) ==
    /\ ticks < MaxWaits
    /\ now' = now + d
    /\ ticks' = ticks + 1
    /\ records' = Expire(backend, records, now + d)
    /\ out' = NoReply
    /\ UNCHANGED <<authVars, backend, config, blacklist, incs, moreVars>>

\* a request to a route that has the middleware as its preHandler
CheckRateLimit(ip, isAuthenticated, fail) ==
    LET r == CheckRateLimitResult(backend, config, records, blacklist, ip,
                                  isAuthenticated, fail, now)
    IN
    /\ records[ip].requests < MaxRequests
    /\ now' = r.at
    /\ records' = r.records
    /\ blacklist' = r.blacklist
    /\ out' = r.reply
    /\ UNCHANGED <<ticks, authVars, backend, config, incs, moreVars>>

\* a call of the storage's getRecord
StoreGetRecord(ip) ==
    LET g == GetRecord(backend, config, records, blacklist, ip, now) IN
    /\ now' = g.at
    /\ records' = g.records
    /\ out' = [NoReply EXCEPT !.op = "getRecord", !.ip = ip, !.err = g.err, !.rec = g.rec]
    /\ UNCHANGED <<ticks, authVars, backend, config, blacklist, incs, moreVars>>

\* a call of the storage's incrementRecord
StoreIncrementRecord(ip, isAuthenticated) ==
    LET r == IncrementRecord(backend, config, records, blacklist, ip, isAuthenticated, now)
    IN
    /\ records[ip].requests < MaxRequests
    /\ now' = r.at
    /\ records' = r.records
    /\ blacklist' = r.blacklist
    /\ out' = [NoReply EXCEPT !.op = "incrementRecord", !.ip = ip,
                              !.isAuthenticated = isAuthenticated, !.err = r.err]
    /\ UNCHANGED <<ticks, authVars, backend, config, incs, moreVars>>

\* removeFromBlacklist
RemoveFromBlacklist(ip) ==
    /\ ip \in blacklist
    /\ blacklist' = blacklist \ {ip}
    /\ out' = [NoReply EXCEPT !.op = "removeFromBlacklist", !.ip = ip]
    /\ UNCHANGED <<now, ticks, authVars, backend, config, records, incs, moreVars>>

\* the hourly cleanupOldRecords of the file-backed middleware
CleanupOldRecords ==
    /\ backend = "file"
    /\ \E ip \in IPs : records[ip].present /\ records[ip].lastReset < now - DaySeconds
    /\ records' = [ip \in IPs |->
                     IF records[ip].present /\ records[ip].lastReset < now - DaySeconds
                     THEN NoRecord ELSE records[ip]]
    /\ out' = [NoReply EXCEPT !.op = "cleanupOldRecords"]
    /\ UNCHANGED <<now, ticks, authVars, backend, config, blacklist, incs, moreVars>>

NextRate ==
    \/ \E d \in Waits : Wait(d)
    \/ \E ip \in IPs, a \in BOOLEAN, fail \in BOOLEAN : CheckRateLimit(ip, a, fail)
    \/ \E ip \in IPs : StoreGetRecord(ip)
    \/ \E ip \in IPs, a \in BOOLEAN : StoreIncrementRecord(ip, a)
    \/ \E ip \in IPs : RemoveFromBlacklist(ip)
    \/ CleanupOldRecords

SpecRate == InitRate /\ [][NextRate]_vars

(* ----------------------- interleaved increments ----------------------- *)
\* incrementRecord up to the resumption of let record = await getRecord(ip):
\* the call holds what getRecord returned, or has thrown Blacklisted
IncBegin(p, ip, isAuthenticated) ==
    LET g == GetRecord(backend, config, records, blacklist, ip, now) IN
    /\ incs[p].pc = "idle"
    /\ records[ip].requests < MaxRequests
    /\ now' = g.at
    /\ records' = g.records
    /\ IF g.err # ""
       THEN /\ out' = [NoReply EXCEPT !.op = "incrementRecord", !.ip = ip,
                                      !.isAuthenticated = isAuthenticated, !.err = g.err]
            /\ incs' = incs
       ELSE /\ out' = NoReply
            /\ incs' = [incs EXCEPT ![p] = [pc |-> "read", ip |-> ip,
                                            isAuthenticated |-> isAuthenticated,
                                            got |-> g.rec]]
    /\ UNCHANGED <<ticks, authVars, backend, config, blacklist, moreVars>>

\* the record a resumed incrementRecord counts on: a new one when getRecord
\* returned null; in the file backend the object of the Map it was handed, with
\* what other calls did to it since; in the Redis backend the copy it parsed
HeldRecord(p) ==
    LET c == incs[p] IN
    IF ~c.got.present
    THEN NewRecord(c.isAuthenticated, now, IF backend = "file" THEN p ELSE 0)
    ELSE IF backend = "file" /\ records[c.ip].present /\ records[c.ip].obj = c.got.obj
    THEN records[c.ip]
    ELSE c.got

\* the rest of incrementRecord: count, blacklist on the third violation, store
IncEnd(p) ==
    LET c == incs[p]
        upd == Bump(backend, config, HeldRecord(p), c.isAuthenticated, now)
    IN
    /\ c.pc = "read"
    /\ records' = [records EXCEPT ![c.ip] = upd]
    /\ blacklist' = IF ShouldBlacklist(config, upd) THEN blacklist \cup {c.ip}
                    ELSE blacklist
    /\ incs' = [incs EXCEPT ![p] = NoIncrement]
    /\ out' = [NoReply EXCEPT !.op = "incrementRecord", !.ip = c.ip,
                              !.isAuthenticated = c.isAuthenticated]
    /\ UNCHANGED <<now, ticks, authVars, backend, config, moreVars>>

\* the seconds that pass between two steps of interleaved calls: all of them
\* together are shorter than the shortest window, the calls share one window
RaceWaits == {5}

NextRace ==
    \/ \E d \in RaceWaits : Wait(d)
    \/ \E p \in Procs, ip \in IPs, a \in BOOLEAN : IncBegin(p, ip, a)
    \/ \E p \in Procs : IncEnd(p)

SpecRace == InitRate /\ [][NextRace]_vars

(* --------------------------- the two stores --------------------------- *)
\* the store has no such method: a call of it throws a TypeError
ErrNoMethod == "cleanupOldRecords is not a function"

\* resetRecord.  The file backend resets the record of its Map, whatever the
\* blacklist holds; the Redis backend goes through getRecord first and writes
\* the reset record only if getRecord returned one
ResetRecord(b, cfg, recs, bl, ip, t) ==
    LET g == GetRecord(b, cfg, recs, bl, ip, t) IN
    IF b = "file"
    THEN [err |-> "", at |-> t,
          records |-> IF recs[ip].present
                      THEN [recs EXCEPT ![ip] = ResetFields(recs[ip], t)] ELSE recs]
    ELSE IF g.err # "" THEN [err |-> g.err, at |-> g.at, records |-> g.records]
    ELSE [err |-> "", at |-> g.at,
          records |-> IF g.rec.present
                      THEN [g.records EXCEPT ![ip] =
                              [ResetFields(g.rec, g.at) EXCEPT
                                  !.expires = g.at + cfg.authWindowSeconds]]
                      ELSE g.records]

\* cleanupOldRecords of the file backend
Cleanup(recs, t) ==
    [ip \in DOMAIN recs |->
        IF recs[ip].present /\ recs[ip].lastReset < t - DaySeconds THEN NoRecord
        ELSE recs[ip]]

\* both stores start empty with the same configuration; records and blacklist
\* are the Redis-backed store, twin the file-backed one
InitTwin ==
    /\ InitRate
    /\ backend = "redis"

TwinWait(d) ==
    /\ ticks < MaxWaits
    /\ now' = now + d
    /\ ticks' = ticks + 1
    /\ records' = Expire("redis", records, now + d)
    /\ out' = NoReply
    /\ twin' = [twin EXCEPT !.err = "", !.rec = NoRecord]
    /\ UNCHANGED <<authVars, backend, config, blacklist, incs, mem, auxVars>>

TwinGetRecord(ip) ==
    LET r == GetRecord("redis", config, records, blacklist, ip, now)
        f == GetRecord("file", config, twin.records, twin.blacklist, ip, now)
    IN
    /\ now' = r.at
    /\ records' = r.records
    /\ out' = [NoReply EXCEPT !.op = "getRecord", !.ip = ip, !.err = r.err, !.rec = r.rec]
    /\ twin' = [twin EXCEPT !.records = f.records, !.err = f.err, !.rec = f.rec]
    /\ UNCHANGED <<ticks, authVars, backend, config, blacklist, incs, mem, auxVars>>

TwinIncrementRecord(ip, isAuthenticated) ==
    LET r == IncrementRecord("redis", config, records, blacklist, ip, isAuthenticated, now)
        f == IncrementRecord("file", config, twin.records, twin.blacklist, ip,
                             isAuthenticated, now)
    IN
    /\ records[ip].requests < MaxRequests
    /\ twin.records[ip].requests < MaxRequests
    /\ now' = r.at
    /\ records' = r.records
    /\ blacklist' = r.blacklist
    /\ out' = [NoReply EXCEPT !.op = "incrementRecord", !.ip = ip,
                              !.isAuthenticated = isAuthenticated, !.err = r.err]
    /\ twin' = [records |-> f.records, blacklist |-> f.blacklist, err |-> f.err,
                rec |-> NoRecord]
    /\ UNCHANGED <<ticks, authVars, backend, config, incs, mem, auxVars>>

TwinResetRecord(ip) ==
    LET r == ResetRecord("redis", config, records, blacklist, ip, now)
        f == ResetRecord("file", config, twin.records, twin.blacklist, ip, now)
    IN
    /\ now' = r.at
    /\ records' = r.records
    /\ out' = [NoReply EXCEPT !.op = "resetRecord", !.ip = ip, !.err = r.err]
    /\ twin' = [twin EXCEPT !.records = f.records, !.err = f.err, !.rec = NoRecord]
    /\ UNCHANGED <<ticks, authVars, backend, config, blacklist, incs, mem, auxVars>>

TwinAddToBlacklist(ip) ==
    /\ blacklist' = blacklist \cup {ip}
    /\ out' = [NoReply EXCEPT !.op = "addToBlacklist", !.ip = ip]
    /\ twin' = [twin EXCEPT !.blacklist = twin.blacklist \cup {ip}, !.err = "",
                            !.rec = NoRecord]
    /\ UNCHANGED <<now, ticks, authVars, backend, config, records, incs, mem, auxVars>>

TwinRemoveFromBlacklist(ip) ==
    /\ blacklist' = blacklist \ {ip}
    /\ out' = [NoReply EXCEPT !.op = "removeFromBlacklist", !.ip = ip]
    /\ twin' = [twin EXCEPT !.blacklist = twin.blacklist \ {ip}, !.err = "",
                            !.rec = NoRecord]
    /\ UNCHANGED <<now, ticks, authVars, backend, config, records, incs, mem, auxVars>>

\* cleanupOldRecords: a method of the file backend only
TwinCleanupOldRecords ==
    /\ out' = [NoReply EXCEPT !.op = "cleanupOldRecords", !.err = ErrNoMethod]
    /\ twin' = [twin EXCEPT !.records = Cleanup(twin.records, now), !.err = "",
                            !.rec = NoRecord]
    /\ UNCHANGED <<now, ticks, authVars, backend, config, records, blacklist, incs, mem, auxVars>>

NextTwin ==
    \/ \E d \in Waits : TwinWait(d)
    \/ \E ip \in IPs : TwinGetRecord(ip)
    \/ \E ip \in IPs, a \in BOOLEAN : TwinIncrementRecord(ip, a)
    \/ \E ip \in IPs : TwinResetRecord(ip)
    \/ \E ip \in IPs : TwinAddToBlacklist(ip)
    \/ \E ip \in IPs : TwinRemoveFromBlacklist(ip)
    \/ TwinCleanupOldRecords

SpecTwin == InitTwin /\ [][NextTwin]_vars

(* ------------------------- several routes ----------------------------- *)
\* a request to a route.  Every route has a RateLimitMiddleware of its own,
\* which builds an adapter of its own.  The Redis adapters read and write the
\* same keys and the same blacklist set: records and blacklist.  A file-backed
\* adapter works on its own Map and Set, mem[r], and every save writes the whole
\* of them to the one rate-limits.json / blacklist.json: records and blacklist
\* are then the contents of the files.
RouteRequest(r, ip, isAuthenticated) ==
    LET recs == IF backend = "redis" THEN records ELSE mem[r].records
        bl == IF backend = "redis" THEN blacklist ELSE mem[r].blacklist
        c == CheckRateLimitResult(backend, RouteConfig(r), recs, bl, ip,
                                  isAuthenticated, FALSE, now)
    IN
    /\ recs[ip].requests < MaxRequests
    /\ now' = c.at
    /\ out' = c.reply
    /\ IF backend = "redis"
       THEN /\ records' = c.records
            /\ blacklist' = c.blacklist
            /\ mem' = mem
       ELSE /\ mem' = [mem EXCEPT ![r] = [records |-> c.records, blacklist |-> c.blacklist]]
            /\ records' = IF c.records # recs THEN c.records ELSE records
            /\ blacklist' = IF c.blacklist # bl THEN c.blacklist ELSE blacklist
    /\ UNCHANGED <<ticks, authVars, backend, config, incs, twin, auxVars>>

InitRoutes ==
    /\ InitRate
    /\ config = LoginLimits

NextRoutes ==
    \/ \E d \in Waits : Wait(d)
    \/ \E r \in Routes, ip \in IPs, a \in BOOLEAN : RouteRequest(r, ip, a)

SpecRoutes == InitRoutes /\ [][NextRoutes]_vars

(* ----------------------- Redis calls that fail ------------------------ *)
\* the call issues the next Redis command: it is counted, and it throws while
\* the connection still fails; a call that has thrown issues nothing more
Issue(st, cmd) ==
    IF st.err # "" THEN st
    ELSE IF st.skip > 0
    THEN [st EXCEPT !.tries[cmd] = @ + 1, !.skip = @ - 1]
    ELSE IF st.faults > 0
    THEN [st EXCEPT !.tries[cmd] = @ + 1, !.faults = @ - 1, !.err = st.kind]
    ELSE [st EXCEPT !.tries[cmd] = @ + 1]

\* error.message.includes('client is closed')
Retries(err) == err = ErrClosed

\* the body handed to executeRedisOperation by each method of the adapter:
\* getRecord of an IP whose record, if any, is inside its window (sIsMember,
\* get); addToBlacklist (sAdd); removeFromBlacklist (sRem); incrementRecord
\* (getRecord, addToBlacklist on a third violation, set); resetRecord of an
\* IP that has a record (getRecord, set)
RECURSIVE ExecuteRedisOperation(_, _)
Operation(call, st) ==
    CASE call = "getRecord" -> Issue(Issue(st, "sIsMember"), "get")
      [] call = "addToBlacklist" -> Issue(st, "sAdd")
      [] call = "removeFromBlacklist" -> Issue(st, "sRem")
      [] call = "incrementRecord" ->
            LET got == ExecuteRedisOperation("getRecord", st) IN
            Issue(IF st.third THEN ExecuteRedisOperation("addToBlacklist", got) ELSE got,
                  "set")
      [] call = "resetRecord" -> Issue(ExecuteRedisOperation("getRecord", st), "set")

\* executeRedisOperation: run the operation; after a 'client is closed' error
\* ensure the connection and run it once more
ExecuteRedisOperation(call, st) ==
    IF st.err # "" THEN st
    ELSE LET first == Operation(call, st) IN
         IF Retries(first.err)
         THEN Operation(call, [first EXCEPT !.err = "", !.retried = @ + 1])
         ELSE first

RedisCall(call, kind, skip, faults, third) ==
    LET st == [call |-> call, kind |-> kind, third |-> third, skip |-> skip,
               faults |-> faults, from |-> skip, failing |-> faults,
               tries |-> [c \in Commands |-> 0], retried |-> 0, err |-> ""]
    IN
    /\ retry' = ExecuteRedisOperation(call, st)
    /\ UNCHANGED <<now, ticks, authVars, backend, config, records, blacklist, out, incs,
                   twin, mem, auth, burstVars>>

InitRetry ==
    /\ InitRate
    /\ backend = "redis"
    /\ config = LoginLimits

NextRetry ==
    \E call \in StoreCalls, kind \in {ErrClosed, ErrOther}, skip \in 0 .. MaxSkip,
       faults \in 0 .. MaxFaults, third \in BOOLEAN :
        RedisCall(call, kind, skip, faults, third)

SpecRetry == InitRetry /\ [][NextRetry]_vars

(* -------------------------- AuthMiddleware ---------------------------- *)
\* a session token that is checked less: any token with a dot is validated
HasCredentialAnyLength(cookie) ==
    /\ ~cookie.err
    /\ cookie.defined
    /\ IncludesDot(Trim(cookie.value))

\* the request carries a session token that is worth validating: the two
\* early returns of authenticate are not taken
HasCredential(cookie) ==
    /\ ~cookie.err
    /\ cookie.defined
    /\ cookie.value # <<>>
    /\ Len(Trim(cookie.value)) >= 10
    /\ IncludesDot(Trim(cookie.value))

\* a user whose email verification is not asked for
UsableUserUnverified(user) ==
    /\ user.present
    /\ user.is_active
    /\ user.email # ""
    /\ user.id # ""

\* the user of an Ok validation that passes every else-if of authenticate
UsableUser(user) ==
    /\ user.present
    /\ user.is_active
    /\ user.is_email_verified
    /\ user.email # ""
    /\ user.id # ""

\* AuthMiddleware.authenticate
Authenticate(cookie, validation) ==
    LET guest == [NoAuthentication EXCEPT !.cookie = cookie, !.validation = validation,
                                          !.email = "guest"]
    IN
    IF ~HasCredential(cookie) THEN guest
    ELSE IF validation.kind = "ok" /\ UsableUser(validation.user)
    THEN [guest EXCEPT !.validated = TRUE, !.email = validation.user.email]
    ELSE [guest EXCEPT !.validated = TRUE]

\* a request passes through the middleware
AuthenticateRequest(cookie, validation) ==
    /\ auth' = Authenticate(cookie, validation)
    /\ UNCHANGED <<now, ticks, authVars, backend, config, records, blacklist, out, incs,
                   twin, mem, retry, burstVars>>

InitAuthMw ==
    /\ InitRate
    /\ backend = "redis"
    /\ config = LoginLimits

NextAuthMw ==
    \E cookie \in SessionCookies, validation \in Validations :
        AuthenticateRequest(cookie, validation)

SpecAuthMw == InitAuthMw /\ [][NextAuthMw]_vars

(* ------------------- requests through the middleware ------------------ *)
\* the configuration of the mail route
MailLimits ==
    [authenticatedLimit |-> 5, unauthenticatedLimit |-> 3,
     authWindowSeconds |-> 30, unauthWindowSeconds |-> 30]

\* the store is reached through checkRateLimit only, one request at a time
Request(ip, isAuthenticated, fail) ==
    LET r == CheckRateLimitResult(backend, config, records, blacklist, ip,
                                  isAuthenticated, fail, now)
    IN
    /\ records[ip].requests <= MaxRequests
    /\ now' = r.at
    /\ records' = r.records
    /\ blacklist' = r.blacklist
    /\ out' = r.reply
    /\ UNCHANGED <<ticks, authVars, backend, config, incs, moreVars>>

InitMw ==
    /\ now = StartTime
    /\ ticks = 0
    /\ users = [u \in Users |->
                  [id |-> u, email |-> EmailOf(u), is_active |-> TRUE,
                   is_email_verified |-> TRUE]]
    /\ tokens = <<>>
    /\ last = NoCall
    /\ calls = [p \in Procs |-> NoRotation]
    /\ backend \in Backends
    /\ config \in {LoginLimits, MailLimits}
    /\ records = [ip \in IPs |-> NoRecord]
    /\ blacklist = {}
    /\ out = NoReply
    /\ incs = [p \in Procs |-> NoIncrement]
    /\ InitMore

NextMw ==
    \/ \E d \in Waits : Wait(d)
    \/ \E ip \in IPs, a \in BOOLEAN, fail \in BOOLEAN : Request(ip, a, fail)
    \/ CleanupOldRecords

SpecMw == InitMw /\ [][NextMw]_vars

(* ----------------------- interleaved requests ------------------------- *)
\* checkRateLimit after its limit test: incrementRecord, the second getRecord,
\* the quota headers; an error goes to the catch blocks
CountAndProceed(b, cfg, recs, bl, ip, isAuthenticated, t) ==
    LET limit == Limit(cfg, isAuthenticated)
        windowSeconds == Window(cfg, isAuthenticated)
        inc == IncrementRecord(b, cfg, recs, bl, ip, isAuthenticated, t)
        g2 == GetRecord(b, cfg, inc.records, inc.blacklist, ip, inc.at)
        Thrown(err, rs, black, at) ==
            Answer(b, ip, isAuthenticated, FALSE, err, OnStoreError(b, err), -1, 0, 0,
                   rs, black, at)
    IN
    IF inc.err # "" THEN Thrown(inc.err, inc.records, inc.blacklist, inc.at)
    ELSE IF g2.err # "" THEN Thrown(g2.err, g2.records, inc.blacklist, g2.at)
    ELSE Answer(b, ip, isAuthenticated, FALSE, "", 0,
                IF g2.rec.present THEN limit - g2.rec.requests ELSE -1, 0,
                IF g2.rec.present THEN g2.rec.lastReset + windowSeconds ELSE 0,
                g2.records, inc.blacklist, g2.at)

\* checkRateLimit up to its limit test: the record is read and compared; the
\* call answers 429 or an error, or goes on to count the request
CheckBegin(p, ip, isAuthenticated) ==
    LET g == GetRecord(backend, config, records, blacklist, ip, now)
        limit == Limit(config, isAuthenticated)
        thrown == Answer(backend, ip, isAuthenticated, FALSE, g.err,
                         OnStoreError(backend, g.err), -1, 0, 0, g.records, blacklist, g.at)
        exceeded == Answer(backend, ip, isAuthenticated, FALSE, "", TOO_MANY_REQUESTS, 0,
                           (g.rec.lastReset + Window(config, isAuthenticated)) - g.at,
                           g.rec.lastReset + Window(config, isAuthenticated),
                           g.records, blacklist, g.at)
    IN
    /\ chks[p].pc = "idle"
    /\ passed < MaxRequests
    /\ now' = g.at
    /\ records' = g.records
    /\ IF g.err # ""
       THEN /\ out' = thrown.reply
            /\ passed' = IF thrown.reply.handler THEN passed + 1 ELSE passed
            /\ chks' = chks
       ELSE IF g.rec.present /\ Exceeded(g.rec, limit)
       THEN /\ out' = exceeded.reply
            /\ passed' = passed
            /\ chks' = chks
       ELSE /\ out' = NoReply
            /\ passed' = passed
            /\ chks' = [chks EXCEPT ![p] = [pc |-> "counting", ip |-> ip,
                                            isAuthenticated |-> isAuthenticated]]
    /\ UNCHANGED <<ticks, authVars, backend, config, blacklist, incs, twin, mem, retry, auth>>

\* the rest of checkRateLimit
CheckEnd(p) ==
    LET c == chks[p]
        r == CountAndProceed(backend, config, records, blacklist, c.ip,
                             c.isAuthenticated, now)
    IN
    /\ c.pc = "counting"
    /\ now' = r.at
    /\ records' = r.records
    /\ blacklist' = r.blacklist
    /\ out' = r.reply
    /\ passed' = IF r.reply.handler THEN passed + 1 ELSE passed
    /\ chks' = [chks EXCEPT ![p] = NoCheck]
    /\ UNCHANGED <<ticks, authVars, backend, config, incs, twin, mem, retry, auth>>

\* time passes inside the window the first request opened
BurstWait(d) ==
    /\ (now + d) - StartTime < config.authWindowSeconds
    /\ now' = now + d
    /\ out' = NoReply
    /\ UNCHANGED <<ticks, authVars, backend, config, records, blacklist, incs, moreVars>>

InitBurst ==
    /\ InitRate
    /\ config = LoginLimits

NextBurst ==
    \/ \E d \in RaceWaits : BurstWait(d)
    \/ \E p \in Procs, ip \in IPs, a \in BOOLEAN : CheckBegin(p, ip, a)
    \/ \E p \in Procs : CheckEnd(p)

SpecBurst == InitBurst /\ [][NextBurst]_vars

(* ------------------------------ claims -------------------------------- *)
IsJwt(token) == token.sig = "good" /\ token.id # ""

\* the records a successful refresh rotated away
RefreshedAway ==
    {i \in DOMAIN tokens :
        \E j \in DOMAIN tokens : tokens[j].parent = i /\ ~tokens[j].is_remember_me_token}

\* C1: once refresh(R) has succeeded, the record that held R is revoked and a
\* later validateRefreshToken(R) fails.
C1_RefreshedTokenRejected ==
    (/\ last.op = "validateRefreshToken"
     /\ \E i \in RefreshedAway : tokens[i].revoked /\ tokens[i].refresh_token = last.token)
    => ~last.res.ok

\* C3: no two non-revoked records of one user hold the same access token or the
\* same refresh token.
C3_TokensUnique ==
    \A i, j \in DOMAIN tokens :
        (/\ i # j
         /\ tokens[i].user_id = tokens[j].user_id
         /\ ~tokens[i].revoked
         /\ ~tokens[j].revoked)
        => /\ tokens[i].access_token # tokens[j].access_token
           /\ tokens[i].refresh_token # tokens[j].refresh_token

\* C4: a successful login followed at once by validateAccessToken of the access
\* token it returned, with no email and the login's ip and user agent, is Ok.
C4_LoginThenValidateOk ==
    [][(/\ last.op = "login"
        /\ last.res.ok
        /\ last'.op = "validateAccessToken"
        /\ last'.token = tokens[last.issued].access_token
        /\ last'.email = ""
        /\ last'.ip = last.ip
        /\ last'.ua = last.ua)
       => last'.res.ok]_vars

\* the type a validation expects, "" for a call that is no validation
ExpectedType(op) ==
    IF op = "validateAccessToken" THEN TYPE_ACCESS
    ELSE IF op = "validateRefreshToken" THEN TYPE_REFRESH
    ELSE IF op = "validateRememberMeToken" THEN TYPE_REMEMBER_ME
    ELSE ""

\* the last call validated a signed token of another type than it expects
WrongTypePresented ==
    /\ ExpectedType(last.op) # ""
    /\ IsJwt(last.token)
    /\ last.token.type # ExpectedType(last.op)

\* C5 as claimed: a token of another type always gets the type-mismatch failure
\* and no store state is read.
C5_AlwaysTypeMismatch ==
    WrongTypePresented =>
        /\ ~last.res.ok
        /\ ~last.res.reads
        /\ last.res.message = TypeMessage(ExpectedType(last.op))

\* C5 amended: a signed token of another type is never accepted and no store
\* state is read; the failure is the expired one once the token's signed expiry
\* has passed and the type-mismatch one before that.
C5_WrongTypeRejected ==
    WrongTypePresented =>
        /\ ~last.res.ok
        /\ ~last.res.reads
        /\ last.found = {}
        /\ last.res.message =
              IF now >= last.token.exp THEN MsgExpired
              ELSE TypeMessage(ExpectedType(last.op))

C5_Witness ==
    /\ last.op = "validateAccessToken"
    /\ last.token.type = TYPE_REFRESH
    /\ \E i \in DOMAIN tokens : tokens[i].refresh_token = last.token /\ ~tokens[i].revoked
    /\ last.res.message = MsgTypeAccess

\* the checks of validateAccessToken, as the claim lists them, on the last call
C6_Required == last.token = NoToken
C6_Structural ==
    \/ last.token.sig # "good"
    \/ now >= last.token.exp
    \/ last.token.id = ""
    \/ last.token.type # TYPE_ACCESS
C6_TooOld == now - last.token.iat > MaxTokenAgeDays * DaySeconds
C6_NoUser == last.token.id \notin Users
C6_NotOwner == last.email # "" /\ users[last.token.id].email # last.email
C6_Inactive ==
    ~users[last.token.id].is_active \/ ~users[last.token.id].is_email_verified
C6_Revoked ==
    ~\E i \in DOMAIN tokens : /\ tokens[i].user_id = last.token.id
                              /\ tokens[i].access_token = last.token
                              /\ ~tokens[i].revoked
C6_IpDiffers == last.ip # "" /\ \E i \in last.found : tokens[i].ip_address # last.ip
C6_AgentDiffers == last.ua # "" /\ \E i \in last.found : tokens[i].user_agent # last.ua

C6_Expected ==
    IF C6_Required THEN {MsgRequired}
    ELSE IF C6_Structural THEN {MsgFormat, MsgExpired, MsgStructure, MsgTypeAccess}
    ELSE IF C6_TooOld THEN {MsgMaxAge}
    ELSE IF C6_NoUser THEN {MsgUserNotFound}
    ELSE IF C6_NotOwner THEN {MsgOwnership}
    ELSE IF C6_Inactive THEN {MsgInactive}
    ELSE IF C6_Revoked THEN {MsgRevoked}
    ELSE IF C6_IpDiffers THEN {MsgIp}
    ELSE IF C6_AgentDiffers THEN {MsgAgent}
    ELSE {MsgValid}

\* C6: validateAccessToken reports the first failing check of the order
\* required, structure/type/expired, max age, user not found, ownership,
\* inactive, revoked, ip, user agent, and Ok when none fails.
C6_FirstFailingCheck ==
    last.op = "validateAccessToken" =>
        /\ last.res.message \in C6_Expected
        /\ last.res.ok <=> last.res.message = MsgValid

\* ip and user agent both differ from the record's, and the ip is reported
C6_Witness ==
    /\ last.op = "validateAccessToken"
    /\ C6_IpDiffers
    /\ C6_AgentDiffers
    /\ last.res.message = MsgIp

\* C7: validateAccessToken of an access token the service issued, called once
\* the access TTL has passed since the issue, fails with the expired failure.
C7_ExpiredAfterTtl ==
    (/\ last.op = "validateAccessToken"
     /\ \E i \in DOMAIN tokens : /\ tokens[i].access_token = last.token
                                 /\ now - tokens[i].created_at >= 45 * 60)
    => /\ ~last.res.ok
       /\ last.res.message = MsgExpired

C7_Witness ==
    /\ last.op = "validateAccessToken"
    /\ \E i \in DOMAIN tokens : /\ tokens[i].access_token = last.token
                                /\ ~tokens[i].revoked
                                /\ now - tokens[i].created_at = 45 * 60
    /\ last.res.message = MsgExpired

\* C8: revokeUserTokens answers no-tokens-found exactly when the subject has no
\* non-revoked record matching a supplied token, and revokes every such record
\* otherwise.
C8_NoTokensIffNoneActive ==
    [][(/\ last'.op = "revokeUserTokens"
        /\ IsJwt(last'.token)
        /\ now < last'.token.exp)
       => LET active ==
                {i \in DOMAIN tokens :
                    /\ tokens[i].user_id = last'.token.id
                    /\ ~tokens[i].revoked
                    /\ \/ tokens[i].access_token = last'.token
                       \/ /\ last'.refresh # NoToken
                          /\ tokens[i].refresh_token = last'.refresh
                       \/ /\ last'.remember # NoToken
                          /\ tokens[i].remember_me_token = last'.remember}
          IN /\ (last'.res.message = MsgNoTokens) <=> (active = {})
             /\ \A i \in active : tokens'[i].revoked]_vars

\* C9: validateRememberMeToken fails with the remember-me-expired failure when
\* the record it found is past remember_me_expires_at although the token's
\* signed expiry has not passed, and is Ok only while neither has passed.
C9_DualExpiry ==
    last.op = "validateRememberMeToken" =>
        /\ (/\ IsJwt(last.token)
            /\ last.token.type = TYPE_REMEMBER_ME
            /\ now < last.token.exp
            /\ \E i \in last.found : now > tokens[i].remember_me_expires_at)
           => last.res.message = MsgRememberExpired
        /\ last.res.ok =>
              /\ now < last.token.exp
              /\ last.found # {}
              /\ \A i \in last.found : now <= tokens[i].remember_me_expires_at

C9_Witness ==
    /\ last.op = "validateRememberMeToken"
    /\ now < last.token.exp
    /\ \E i \in last.found : now > tokens[i].remember_me_expires_at
    /\ last.res.message = MsgRememberExpired

\* C10: after revokeRememberMeToken(t) has answered Ok no non-revoked
\* remember-me record holds t, so a second call with t fails.
C10_RevokedOnce ==
    (last.op = "revokeRememberMeToken" /\ last.res.ok)
    => ~\E i \in DOMAIN tokens : /\ tokens[i].is_remember_me_token
                                 /\ tokens[i].remember_me_token = last.token
                                 /\ ~tokens[i].revoked

\* the login a record descends from
RECURSIVE ChainOf(_)
ChainOf(i) == IF tokens[i].parent = 0 THEN i ELSE ChainOf(tokens[i].parent)

\* C2: at most one non-revoked record exists for a login chain, also when calls
\* presenting the same token interleave.
C2_OneActivePerChain ==
    \A i, j \in DOMAIN tokens :
        (i # j /\ ~tokens[i].revoked /\ ~tokens[j].revoked) => ChainOf(i) # ChainOf(j)

\* C11: a revoked record never becomes non-revoked again and no record is ever
\* removed from the store.
C11_RevokedIsTerminal ==
    [][\A i \in DOMAIN tokens :
          /\ i \in DOMAIN tokens'
          /\ tokens[i].revoked => tokens'[i].revoked]_vars

\* a call has saved something while an earlier revoked record was in the store
C11_Witness ==
    /\ last.wrote
    /\ \E i \in DOMAIN tokens :
          /\ tokens[i].revoked
          /\ tokens[i].last_used_at < now
          /\ i \notin last.found

\* C12: a successful loginWithRememberMe creates a remember-me record of the
\* redeemed record's token_version plus one and revokes the redeemed record,
\* and the redeemed token cannot be redeemed again: no non-revoked remember-me
\* record holds it any more.
C12_VersionedRotation ==
    [][(last'.op = "loginWithRememberMe" /\ last'.res.ok)
       => \A old \in last'.found :
             /\ tokens'[last'.issued].is_remember_me_token
             /\ tokens'[last'.issued].token_version = tokens[old].token_version + 1
             /\ tokens'[old].revoked
             /\ RememberMatches(tokens', last'.token) = {}]_vars

\* the calls that go through the storage's getRecord
StoreOps == {"getRecord", "incrementRecord", "checkRateLimit"}

\* the requests the record of ip counts in its running window
Counted(ip) ==
    IF records[ip].present /\ ~WindowElapsed(config, records[ip], now)
    THEN records[ip].requests ELSE 0

\* C13: with a limit N >= 1, a request of an IP whose running window counts
\* fewer than N requests is let through with X-RateLimit-Remaining = N minus the
\* requests counted including this one; a request that finds N counted is
\* answered 429 with X-RateLimit-Remaining 0 and Retry-After = the seconds left
\* until lastReset + window.
C13_QuotaThenExceeded ==
    [][(/\ out'.op = "checkRateLimit"
        /\ ~out'.fail
        /\ out'.ip \notin blacklist
        /\ Limit(config, out'.isAuthenticated) >= 1
        /\ records[out'.ip].present =>
              /\ records[out'.ip].isAuthenticated = out'.isAuthenticated
              /\ ~WindowElapsed(config, records[out'.ip], now))
       => LET N == Limit(config, out'.isAuthenticated)
              W == Window(config, out'.isAuthenticated)
          IN IF Counted(out'.ip) < N
             THEN /\ out'.status = 0
                  /\ out'.handler
                  /\ out'.remaining = N - (Counted(out'.ip) + 1)
             ELSE /\ out'.status = TOO_MANY_REQUESTS
                  /\ ~out'.handler
                  /\ out'.remaining = 0
                  /\ out'.retryAfter = records[out'.ip].lastReset + W - now]_vars

\* the request after the last one of the quota, some seconds into the window
C13_Witness ==
    /\ out.op = "checkRateLimit"
    /\ out.status = TOO_MANY_REQUESTS
    /\ Limit(config, out.isAuthenticated) >= 1
    /\ records[out.ip].requests = Limit(config, out.isAuthenticated)
    /\ records[out.ip].violations = 0
    /\ now > records[out.ip].lastReset
    /\ out.retryAfter > 0

\* C14: checkRateLimit lets a request through only if the requests counted for
\* its IP in the running window are strictly below the limit; with limit 0 no
\* request is let through, the first one of an IP without a record included.
C14_AllowedOnlyBelowLimit ==
    [][(/\ out'.op = "checkRateLimit"
        /\ ~out'.fail
        /\ out'.ip \notin blacklist
        /\ out'.handler)
       => Counted(out'.ip) < Limit(config, out'.isAuthenticated)]_vars

\* C15: a blacklisted IP stays blacklisted until removeFromBlacklist is called
\* for it, every getRecord, incrementRecord and checkRateLimit for it meets the
\* Blacklisted error, and an incrementRecord that records a third violation
\* puts the IP on the blacklist.
C15_BlacklistedUntilRemoved ==
    [][/\ \A ip \in blacklist :
             ip \in blacklist' \/ (out'.op = "removeFromBlacklist" /\ out'.ip = ip)
       /\ (out'.op \in StoreOps /\ ~out'.fail /\ out'.ip \in blacklist)
             => out'.err = ErrBlacklisted
       /\ (/\ out'.op = "incrementRecord"
           /\ out'.err = ""
           /\ records'[out'.ip].requests > Limit(config, out'.isAuthenticated)
           /\ records'[out'.ip].violations >= 3)
             => out'.ip \in blacklist']_vars

\* getRecord refused for a blacklisted IP whose record's window is long over
C15_Witness ==
    /\ out.op = "getRecord"
    /\ out.ip \in blacklist
    /\ out.err = ErrBlacklisted
    /\ records[out.ip].violations >= 3
    /\ WindowElapsed(config, records[out.ip], now)

\* C16: when a stored record's window has elapsed, getRecord returns the record
\* reset in place (requests 0, violations 0, lastReset now) and incrementRecord
\* leaves requests = 1, in both backends.
C16_ElapsedWindowReset ==
    [][(/\ out'.op \in {"getRecord", "incrementRecord"}
        /\ out'.ip \notin blacklist
        /\ records[out'.ip].present
        /\ WindowElapsed(config, records[out'.ip], now))
       => /\ out'.op = "getRecord" =>
                /\ out'.rec.present
                /\ out'.rec.requests = 0
                /\ out'.rec.violations = 0
                /\ out'.rec.lastReset = now'
                /\ records'[out'.ip] = out'.rec
          /\ out'.op = "incrementRecord" => records'[out'.ip].requests = 1]_vars

\* C17 as claimed: a request answered 429 never reaches the handler and leaves
\* the record and the blacklist unchanged.
C17_ExceededChangesNothing ==
    [][(out'.op = "checkRateLimit" /\ out'.status = TOO_MANY_REQUESTS)
       => /\ ~out'.handler
          /\ records' = records
          /\ blacklist' = blacklist]_vars

\* C17 amended: a request answered 429 never reaches the handler and leaves the
\* blacklist unchanged; the record is unchanged too, unless the file backend's
\* getRecord found its window elapsed and reset it, which is followed by a 429
\* only under a limit of 0.
C17_ExceededOnlyResets ==
    [][(out'.op = "checkRateLimit" /\ out'.status = TOO_MANY_REQUESTS)
       => /\ ~out'.handler
          /\ blacklist' = blacklist
          /\ \/ records' = records
             \/ /\ backend = "file"
                /\ Limit(config, out'.isAuthenticated) = 0
                /\ WindowElapsed(config, records[out'.ip], now)
                /\ records' = [records EXCEPT ![out'.ip] =
                                  ResetFields(records[out'.ip], now)]]_vars

\* a 429 for a request whose read has just reset the record
C17_Witness ==
    /\ out.op = "checkRateLimit"
    /\ out.status = TOO_MANY_REQUESTS
    /\ ~out.handler
    /\ records[out.ip].requests = 0
    /\ records[out.ip].lastReset = now

\* C18: when the store reports Blacklisted, checkRateLimit answers with the
\* access-denied response and the request does not reach the handler.
C18_BlacklistedIsForbidden ==
    (out.op = "checkRateLimit" /\ out.err = ErrBlacklisted)
    => out.status = FORBIDDEN /\ ~out.handler

\* C19: when a store operation fails with another error than Blacklisted,
\* checkRateLimit sends the generic error response and the request does not
\* reach the handler.
C19_FailsClosed ==
    (out.op = "checkRateLimit" /\ out.err \notin {"", ErrBlacklisted})
    => out.status = INTERNAL_SERVER_ERROR /\ ~out.handler

\* C20: no increment is lost.  Every incrementRecord that completes inside the
\* window it read in leaves the stored requests counter one above what was
\* stored just before its write (0 for an IP without a record), whatever other
\* incrementRecord calls did between its read and its write; k calls therefore
\* raise the counter by k.
C20_NoLostIncrement ==
    [][\A p \in Procs :
          (/\ incs[p].pc = "read"
           /\ incs'[p].pc = "idle"
           /\ records[incs[p].ip].present =>
                 ~WindowElapsed(config, records[incs[p].ip], now)
           /\ incs[p].got.present =>
                 /\ records[incs[p].ip].present
                 /\ records[incs[p].ip].lastReset = incs[p].got.lastReset)
          => records'[incs[p].ip].requests =
                (IF records[incs[p].ip].present THEN records[incs[p].ip].requests ELSE 0) + 1]_vars

\* what a store call returned, as its caller sees it: the error, or the
\* record's requests, violations, isAuthenticated and lastReset, or null
Returned(err, rec) ==
    IF err # "" THEN <<err>>
    ELSE IF ~rec.present THEN <<"null">>
    ELSE <<"record", rec.requests, rec.violations, rec.isAuthenticated, rec.lastReset>>

\* C21: given the same calls at the same instants, the Redis-backed and the
\* file-backed store return the same result after every call, cleanupOldRecords
\* included.
C21_BackendsAgree ==
    Returned(out.err, out.rec) = Returned(twin.err, twin.rec)

\* the record a route's middleware works on for an IP
RouteRecord(r, ip) == IF backend = "redis" THEN records[ip] ELSE mem[r].records[ip]

\* C22: the middlewares of all routes share one counter per client IP: whatever
\* requests were counted, every route's middleware reads the same requests
\* value for an IP.
C22_OneCounterPerIp ==
    \A r1, r2 \in Routes, ip \in IPs :
        RouteRecord(r1, ip).requests = RouteRecord(r2, ip).requests

\* C23: a public call of the Redis-backed store attempts each Redis command at
\* most twice before the failure reaches the caller, and does not retry after
\* an error other than 'client is closed'.
C23_RetryOnce ==
    /\ \A c \in Commands : retry.tries[c] <= 2
    /\ (retry.kind = ErrOther /\ retry.err # "") =>
          /\ retry.retried = 0
          /\ \A c \in Commands : retry.tries[c] <= 1

\* the last request went through authenticate
Authenticated == auth.validation.kind # "none"

C25_NoOrMalformedCredential ==
    \/ auth.cookie.err
    \/ ~auth.cookie.defined
    \/ Len(Trim(auth.cookie.value)) < 10
    \/ ~IncludesDot(Trim(auth.cookie.value))

C26_GetRecordReturnsAtOnce ==
    [][out'.op = "getRecord" => now' = now]_vars

\* C27: with requests handled one at a time and both limits at least 1,
\* checkRateLimit increments only while requests < limit: no record ever counts
\* more requests than the larger limit or has a violation, and no IP is put on
\* the blacklist.
C27_NoViolationThroughMiddleware ==
    (config.authenticatedLimit >= 1 /\ config.unauthenticatedLimit >= 1) =>
        /\ blacklist = {}
        /\ \A ip \in IPs :
              /\ records[ip].violations = 0
              /\ records[ip].requests <= Limit(config, records[ip].isAuthenticated)

\* an unauthenticated request refused on what authenticated requests counted
C27_Witness ==
    /\ out.op = "checkRateLimit"
    /\ out.status = TOO_MANY_REQUESTS
    /\ ~out.isAuthenticated
    /\ records[out.ip].isAuthenticated
    /\ records[out.ip].requests > config.unauthenticatedLimit
    /\ records[out.ip].violations = 0

\* C28: however concurrent checkRateLimit calls of one IP interleave inside one
\* window, no more of them go on to the handler than the limit allows.
C28_QuotaUnderInterleaving ==
    passed <= Limit(config, TRUE)

\* C29: revokeUserTokens changes records of the subject of the presented
\* access token only, whatever refresh and remember-me token are supplied, and
\* changes no record when it answers Err.
C29_RevokesOnlyOwnRecords ==
    [][last'.op = "revokeUserTokens" =>
          /\ DOMAIN tokens' = DOMAIN tokens
          /\ \A i \in DOMAIN tokens :
                tokens[i].user_id # last'.token.id => tokens'[i] = tokens[i]
          /\ ~last'.res.ok => tokens' = tokens]_vars

\* a logout that succeeded although the refresh token supplied is the one of
\* another user's live record
C29_Witness ==
    /\ last.op = "revokeUserTokens"
    /\ last.res.ok
    /\ \E i \in DOMAIN tokens :
          /\ tokens[i].user_id # last.token.id
          /\ tokens[i].refresh_token = last.refresh
          /\ ~tokens[i].revoked

\* C30: a successful refresh on a session issued with remember_me revokes the
\* whole record: afterwards no non-revoked record holds the session's
\* remember-me token (validateRememberMeToken and loginWithRememberMe fail for
\* it) or its old access token (validateAccessToken answers revoked), and the
\* new record carries no remember-me token.
C30_RefreshEndsRememberMe ==
    [][(last'.op = "refresh" /\ last'.res.ok)
       => \A old \in last'.found :
             tokens[old].is_remember_me_token =>
                /\ tokens'[old].revoked
                /\ ~tokens'[last'.issued].is_remember_me_token
                /\ tokens'[last'.issued].remember_me_token = NoToken
                /\ RememberMatches(tokens', tokens[old].remember_me_token) = {}
                /\ AccessMatches(tokens', tokens[old].access_token) = {}]_vars

====
